---- MODULE Spec2Model ----
(***************************************************************************)
(* Model of backend/main.py of CodeRefine: the POST /api/review handler    *)
(* (review_code), the request model CodeReviewRequest and the metrics      *)
(* parser parse_review_response.                                           *)
(*                                                                         *)
(* Texts are sequences of symbols.  A symbol is a newline, a whitespace    *)
(* character other than a newline, a non-whitespace character, or one of   *)
(* the four header literals.  No header literal is a substring of another  *)
(* and none overlaps itself, so a header literal is matched as one symbol. *)
(***************************************************************************)
EXTENDS Integers, Sequences, FiniteSets, TLC

VARIABLES
    client,       \* process-wide Groq client configuration (main.py:19)
    req,          \* per-request handler state of review_code
    review_text,  \* argument of parse_review_response
    pstate,       \* "idle"; "input" while review_text grows, "parsed" after
    groups,       \* match.group(1) of each section pattern, as count() sees it
    parsed,       \* value returned by parse_review_response(review_text)
    body,         \* the section bodies of a well-formed analysis, as lines
    wf_metrics,   \* parse_review_response of the rendered well-formed text
    wf_prev,      \* wf_metrics before the last edit of a body
    wf_op         \* "idle", or the last edit of a body: "init", "line", "pad"

vars == <<client, req, review_text, pstate, groups, parsed,
          body, wf_metrics, wf_prev, wf_op>>

serverVars == <<client, req>>
parseVars  == <<review_text, pstate, groups, parsed>>
wfVars     == <<body, wf_metrics, wf_prev, wf_op>>

----------------------------------------------------------------------------
(* Bounds *)

NumReqs  == 2   \* concurrently handled requests
MaxLen   == 4   \* symbols in an arbitrary review_text
MaxExtra == 2   \* lines added to the bodies of a well-formed analysis

----------------------------------------------------------------------------
(* Symbols of a text *)

NL == "\n"
SP == " "
X  == "x"

CriticalHdr == "Critical Issues:"
HighHdr     == "High Priority:"
MediumHdr   == "Medium Priority:"
LowHdr      == "Low Priority:"

HeaderSet  == {CriticalHdr, HighHdr, MediumHdr, LowHdr}
Whitespace == {NL, SP}
Symbols    == {NL, SP, X} \cup HeaderSet

Severities == {"critical", "high", "medium", "low"}

\* the pattern has no terminating alternative: "Low Priority:(.*)"
NoTerminator == "(none)"

sections ==
    [critical |-> [header |-> CriticalHdr, terminator |-> HighHdr],
     high     |-> [header |-> HighHdr,     terminator |-> MediumHdr],
     medium   |-> [header |-> MediumHdr,   terminator |-> LowHdr],
     low      |-> [header |-> LowHdr,      terminator |-> NoTerminator]]

----------------------------------------------------------------------------
(* re.search(pattern, review_text, re.DOTALL) *)

RECURSIVE Find(_, _, _)
\* leftmost index >= i at which symbol tok stands, 0 when there is none
Find(text, tok, i) ==
    IF i > Len(text) THEN 0
    ELSE IF text[i] = tok THEN i
    ELSE Find(text, tok, i + 1)

\* "$" without re.MULTILINE: the end of the text, or just before a newline
\* that is the last character of the text
AtDollar(text, p) ==
    \/ p = Len(text) + 1
    \/ p = Len(text) /\ text[p] = NL

\* "(.*)(Terminator:|$)": a greedy group runs to the end of the text
LazyEndGreedy(text, terminator, p) == Len(text) + 1

RECURSIVE LazyEnd(_, _, _)
\* "(.*?)(Terminator:|$)": the lazy group grows one symbol at a time until
\* the terminator header or "$" matches at position p
LazyEnd(text, terminator, p) ==
    IF (p <= Len(text) /\ text[p] = terminator) \/ AtDollar(text, p) THEN p
    ELSE LazyEnd(text, terminator, p + 1)

NoMatch == [matched |-> FALSE, group1 |-> <<>>]

\* the leftmost match: it starts at the first occurrence of the header,
\* where the rest of the pattern always matches
re_search(pattern, text) ==
    LET s == Find(text, pattern.header, 1) IN
    IF s = 0 THEN NoMatch
    ELSE LET e == IF pattern.terminator = NoTerminator
                  THEN Len(text) + 1
                  ELSE LazyEnd(text, pattern.terminator, s + 1)
         IN [matched |-> TRUE, group1 |-> SubSeq(text, s + 1, e - 1)]

----------------------------------------------------------------------------
(* str.split("\n") and str.strip() *)

RECURSIVE split(_)
split(s) ==
    LET i == Find(s, NL, 1) IN
    IF i = 0 THEN <<s>>
    ELSE <<SubSeq(s, 1, i - 1)>> \o split(SubSeq(s, i + 1, Len(s)))

RECURSIVE lstrip(_)
lstrip(s) ==
    IF s # <<>> /\ Head(s) \in Whitespace THEN lstrip(Tail(s)) ELSE s

RECURSIVE rstrip(_)
rstrip(s) ==
    IF s # <<>> /\ s[Len(s)] \in Whitespace
    THEN rstrip(SubSeq(s, 1, Len(s) - 1)) ELSE s

strip(s) == rstrip(lstrip(s))

----------------------------------------------------------------------------
(* parse_review_response *)

NoException == "none"

\* len([l for l in lines if l.strip()])
non_blank(lines) ==
    Cardinality({i \in DOMAIN lines : strip(lines[i]) # <<>>})

Counted(n) == [exc |-> NoException, n |-> n]

\* count() without the `if l.strip()` filter
count_all_lines(pattern, text) ==
    LET match == re_search(pattern, text) IN
    IF ~match.matched THEN Counted(0)
    ELSE Counted(Len(split(match.group1)))

\* count() without the `if not match` guard: None.group(1) raises
count_unguarded(pattern, text) ==
    LET match == re_search(pattern, text) IN
    IF ~match.matched THEN [exc |-> "AttributeError", n |-> 0]
    ELSE Counted(non_blank(split(match.group1)))

\* the value of count(pattern), or the exception it raises
count(pattern, text) ==
    LET match == re_search(pattern, text) IN
    IF ~match.matched THEN Counted(0)
    ELSE Counted(non_blank(split(match.group1)))

\* the dict literal evaluates the four counts in order; the first
\* exception, if any, leaves the function
Metrics(critical, high, medium, low) ==
    [exc |-> IF critical.exc # NoException THEN critical.exc
             ELSE IF high.exc # NoException THEN high.exc
             ELSE IF medium.exc # NoException THEN medium.exc
             ELSE low.exc,
     critical_count |-> critical.n,
     high_count     |-> high.n,
     medium_count   |-> medium.n,
     low_count      |-> low.n]

parse_review_response(text) ==
    Metrics(count(sections["critical"], text), count(sections["high"], text),
            count(sections["medium"], text), count(sections["low"], text))

NotParsed ==
    [exc |-> "(not parsed)", critical_count |-> 0, high_count |-> 0,
     medium_count |-> 0, low_count |-> 0]

CountOf(m, s) ==
    CASE s = "critical" -> m.critical_count
      [] s = "high"     -> m.high_count
      [] s = "medium"   -> m.medium_count
      [] s = "low"      -> m.low_count

----------------------------------------------------------------------------
(* POST /api/review *)

Reqs == 1..NumReqs

\* request bodies: the empty string, a whitespace-only string, real code
Codes == {<<>>, <<SP>>, <<X>>}
FocusChoices == {<<>>, <<"security", "performance">>}

\* what client.chat.completions.create can do: raise, return a completion
\* without choices, with a null content, or with a text content
Causes == {"timeout", "auth"}
ExampleAnalysis == <<CriticalHdr, NL, X, NL, X, NL, HighHdr, NL, X, NL>>
AnalysisTexts == {<<>>, ExampleAnalysis}
RewriteTexts  == {<<SP, X, NL>>}

Outcome(kind, cause, text) == [kind |-> kind, cause |-> cause, text |-> text]

RaiseOutcomes == {Outcome("raise", c, <<>>) : c \in Causes}
                     \cup {Outcome("no_choices", "IndexError", <<>>)}
ReturnOutcomes(texts) == {Outcome("null", "", <<>>)}
                             \cup {Outcome("text", "", t) : t \in texts}

IsEmptyCompletion(o) == o.kind = "null" \/ (o.kind = "text" /\ o.text = <<>>)

InitClient == [api_key |-> "GROQ_API_KEY"]

NoResponse == [status |-> 0, body |-> [pending |-> TRUE]]

IdleRequest ==
    [pc |-> "idle", code |-> <<>>, focus_areas |-> <<>>, calls |-> <<>>,
     replies |-> <<>>, analysis_text |-> <<>>, response |-> NoResponse]

\* CodeReviewRequest.code: Field(..., min_length=1)
CodeReviewRequest(code) == Len(code) >= 1

\* FastAPI answers a body that fails the request model with 422
ValidationErrorResponse ==
    [status |-> 422, body |-> [detail |-> "string_too_short"]]

RECURSIVE join(_)
\* ", ".join(focus_areas)
join(areas) ==
    IF areas = <<>> THEN <<>>
    ELSE IF Len(areas) = 1 THEN areas
    ELSE <<Head(areas), ", ">> \o join(Tail(areas))

focus_str(focus_areas) ==
    IF focus_areas # <<>> THEN join(focus_areas) ELSE <<"general quality">>

analysis_prompt(code, focus_areas) ==
    [template |-> "analysis", focus |-> focus_str(focus_areas), code |-> code]

rewrite_prompt(code) ==
    [template |-> "rewrite", focus |-> <<>>, code |-> code]

\* `detail=str(e)` and the locals in place of the fixed message
ExceptionResponseEcho(e, analysis_text) ==
    [status |-> 500, body |-> [detail |-> e.cause]]

\* a degraded success that returns what was obtained before the failure
ExceptionResponsePartial(e, analysis_text) ==
    [status |-> 200,
     body |-> [analysis |-> analysis_text, rewritten_code |-> <<>>,
               metrics |-> [critical_count |-> 0, high_count |-> 0,
                            medium_count |-> 0, low_count |-> 0]]]

\* except Exception as e: raise HTTPException(500, "Internal AI processing
\* error"); e and the handler's locals are in scope and unused
ExceptionResponse(e, analysis_text) ==
    [status |-> 500, body |-> [detail |-> "Internal AI processing error"]]

\* a module-level variable shared by the handlers in place of the local
content_or_shared(r, o) ==
    IF \E q \in Reqs \ {r} : req[q].analysis_text # <<>>
    THEN req[CHOOSE q \in Reqs \ {r} : req[q].analysis_text # <<>>].analysis_text
    ELSE IF o.kind = "null" THEN <<>> ELSE o.text

\* analysis_res.choices[0].message.content or "", in request r
content_or_empty(r, o) == IF o.kind = "null" THEN <<>> ELSE o.text

\* CodeReviewResponse(analysis=..., rewritten_code=..., metrics=...)
CodeReviewResponse(analysis_text, rewritten_code, metrics) ==
    [status |-> 200,
     body |-> [analysis |-> analysis_text, rewritten_code |-> rewritten_code,
               metrics |-> [critical_count |-> metrics.critical_count,
                            high_count     |-> metrics.high_count,
                            medium_count   |-> metrics.medium_count,
                            low_count      |-> metrics.low_count]]]

\* the request arrives: FastAPI validates the body, then review_code runs
\* up to the analysis call (main.py:84-102)
Receive(r, code, focus_areas) ==
    /\ req[r].pc = "idle"
    /\ req' = [req EXCEPT ![r] =
         IF CodeReviewRequest(code)
         THEN [@ EXCEPT !.pc = "await_analysis", !.code = code,
                        !.focus_areas = focus_areas,
                        !.calls = <<analysis_prompt(code, focus_areas)>>]
         ELSE [@ EXCEPT !.pc = "done", !.code = code,
                        !.focus_areas = focus_areas,
                        !.response = ValidationErrorResponse]]
    /\ UNCHANGED client

\* the analysis call is attempted again instead of failing the request
AnalysisRaisesRetry(r, o) ==
    /\ req[r].pc = "await_analysis"
    /\ o \in RaiseOutcomes
    /\ req' = [req EXCEPT ![r] =
         IF Len(@.calls) < 2
         THEN [@ EXCEPT !.replies = Append(@, o),
                        !.calls = Append(@, analysis_prompt(req[r].code,
                                                            req[r].focus_areas))]
         ELSE [@ EXCEPT !.pc = "done", !.replies = Append(@, o),
                        !.response = ExceptionResponse(o, req[r].analysis_text)]]
    /\ UNCHANGED client

\* the analysis call raises, or choices[0] does: the except clause answers
AnalysisRaises(r, o) ==
    /\ req[r].pc = "await_analysis"
    /\ o \in RaiseOutcomes
    /\ req' = [req EXCEPT ![r] =
         [@ EXCEPT !.pc = "done", !.replies = Append(@, o),
                   !.response = ExceptionResponse(o, req[r].analysis_text)]]
    /\ UNCHANGED client

\* the analysis call returns: main.py:109-119, up to the rewrite call
AnalysisReturns(r, o) ==
    /\ req[r].pc = "await_analysis"
    /\ o \in ReturnOutcomes(AnalysisTexts)
    /\ req' = [req EXCEPT ![r] =
         [@ EXCEPT !.pc = "await_rewrite", !.replies = Append(@, o),
                   !.analysis_text = content_or_empty(r, o),
                   !.calls = Append(@, rewrite_prompt(req[r].code))]]
    /\ UNCHANGED client

\* the rewrite call raises, or choices[0] does
RewriteRaises(r, o) ==
    /\ req[r].pc = "await_rewrite"
    /\ o \in RaiseOutcomes
    /\ req' = [req EXCEPT ![r] =
         [@ EXCEPT !.pc = "done", !.replies = Append(@, o),
                   !.response = ExceptionResponse(o, req[r].analysis_text)]]
    /\ UNCHANGED client

\* the rewrite call returns: main.py:126-135
RewriteReturns(r, o) ==
    /\ req[r].pc = "await_rewrite"
    /\ o \in ReturnOutcomes(RewriteTexts)
    /\ LET rewritten_code == strip(content_or_empty(r, o))
           metrics == parse_review_response(req[r].analysis_text)
       IN req' = [req EXCEPT ![r] =
            [@ EXCEPT !.pc = "done", !.replies = Append(@, o),
                      !.response =
                          IF metrics.exc # NoException
                          THEN ExceptionResponse(
                                   Outcome("raise", metrics.exc, <<>>),
                                   req[r].analysis_text)
                          ELSE CodeReviewResponse(req[r].analysis_text,
                                                  rewritten_code, metrics)]]
    /\ UNCHANGED client

ParseIdle ==
    /\ review_text = <<>> /\ pstate = "idle"
    /\ groups = [s \in Severities |-> NoMatch] /\ parsed = NotParsed

WfIdle ==
    /\ body = [s \in Severities |-> <<>>] /\ wf_op = "idle"
    /\ wf_metrics = NotParsed /\ wf_prev = NotParsed

Init ==
    /\ client = InitClient
    /\ req = [r \in Reqs |-> IdleRequest]
    /\ ParseIdle /\ WfIdle

Next ==
    \/ \E r \in Reqs, code \in Codes, f \in FocusChoices :
           Receive(r, code, f) /\ UNCHANGED <<parseVars, wfVars>>
    \/ \E r \in Reqs, o \in RaiseOutcomes :
           AnalysisRaises(r, o) /\ UNCHANGED <<parseVars, wfVars>>
    \/ \E r \in Reqs, o \in ReturnOutcomes(AnalysisTexts) :
           AnalysisReturns(r, o) /\ UNCHANGED <<parseVars, wfVars>>
    \/ \E r \in Reqs, o \in RaiseOutcomes :
           RewriteRaises(r, o) /\ UNCHANGED <<parseVars, wfVars>>
    \/ \E r \in Reqs, o \in ReturnOutcomes(RewriteTexts) :
           RewriteReturns(r, o) /\ UNCHANGED <<parseVars, wfVars>>

Spec == Init /\ [][Next]_vars

----------------------------------------------------------------------------
(* parse_review_response applied to arbitrary texts *)

InitParse ==
    /\ client = InitClient
    /\ req = [r \in Reqs |-> IdleRequest]
    /\ review_text = <<>> /\ pstate = "input"
    /\ groups = [s \in Severities |-> NoMatch] /\ parsed = NotParsed
    /\ WfIdle

\* the model's reply grows by one symbol
Extend(sym) ==
    /\ pstate = "input"
    /\ Len(review_text) < MaxLen
    /\ review_text' = Append(review_text, sym)
    /\ UNCHANGED <<pstate, groups, parsed>>

\* metrics = parse_review_response(analysis_text)
Parse ==
    /\ pstate = "input"
    /\ pstate' = "parsed"
    /\ groups' = [s \in Severities |-> re_search(sections[s], review_text)]
    /\ parsed' = parse_review_response(review_text)
    /\ UNCHANGED review_text

NextParse ==
    \/ \E sym \in Symbols : Extend(sym) /\ UNCHANGED <<serverVars, wfVars>>
    \/ Parse /\ UNCHANGED <<serverVars, wfVars>>

SpecParse == InitParse /\ [][NextParse]_vars

----------------------------------------------------------------------------
(* parse_review_response applied to well-formed analyses: the four headers *)
(* once each, in order, each followed by a body given as its lines         *)

BlankLines    == {<<>>, <<SP>>}
NonBlankLines == {<<X>>, <<SP, X>>}

RECURSIVE JoinLines(_)
\* the lines of a body, separated by newlines
JoinLines(lines) ==
    IF Len(lines) = 1 THEN lines[1]
    ELSE lines[1] \o <<NL>> \o JoinLines(Tail(lines))

Render(b) ==
    <<CriticalHdr>> \o JoinLines(b["critical"])
        \o <<HighHdr>> \o JoinLines(b["high"])
        \o <<MediumHdr>> \o JoinLines(b["medium"])
        \o <<LowHdr>> \o JoinLines(b["low"])

RECURSIVE SumLens(_, _)
SumLens(b, S) ==
    IF S = {} THEN 0
    ELSE LET s == CHOOSE t \in S : TRUE IN Len(b[s]) + SumLens(b, S \ {s})

ExtraLines(b) == SumLens(b, Severities) - Cardinality(Severities)

InitWellFormed ==
    /\ client = InitClient
    /\ req = [r \in Reqs |-> IdleRequest]
    /\ ParseIdle
    /\ body \in [Severities -> {<<l>> : l \in NonBlankLines}]
    /\ \E text \in {Render(body)} :
           wf_metrics = parse_review_response(text)
    /\ wf_prev = wf_metrics
    /\ wf_op = "init"

Insert(lines, front, line) ==
    IF front THEN <<line>> \o lines ELSE Append(lines, line)

EditBody(s, front, line, op) ==
    /\ wf_op # "idle"
    /\ ExtraLines(body) < MaxExtra
    /\ body' = [body EXCEPT ![s] = Insert(@, front, line)]
    /\ wf_prev' = wf_metrics
    /\ \E text \in {Render(body')} :
           wf_metrics' = parse_review_response(text)
    /\ wf_op' = op

\* the analysis has one more finding at the start or end of a section
AddLine(s, front, line) ==
    line \in NonBlankLines /\ EditBody(s, front, line, "line")

\* the analysis has one more blank or whitespace-only line at the start or
\* end of a section body
PadBlank(s, front, line) ==
    line \in BlankLines /\ EditBody(s, front, line, "pad")

NextWellFormed ==
    \/ \E s \in Severities, front \in BOOLEAN, line \in NonBlankLines :
           AddLine(s, front, line) /\ UNCHANGED <<serverVars, parseVars>>
    \/ \E s \in Severities, front \in BOOLEAN, line \in BlankLines :
           PadBlank(s, front, line) /\ UNCHANGED <<serverVars, parseVars>>

SpecWellFormed == InitWellFormed /\ [][NextWellFormed]_vars

----------------------------------------------------------------------------
(* Properties *)

Status(r)   == req[r].response.status
Done(r)     == req[r].pc = "done"
Raised(r)   == \E i \in DOMAIN req[r].replies : req[r].replies[i] \in RaiseOutcomes
Occurs(sym, text) == \E i \in DOMAIN text : text[i] = sym

\* C1: a request whose code is empty or whitespace-only is rejected with a
\* client error and no model call is ever issued for it.
C1_BlankCodeRejectedBeforeAnyCall ==
    \A r \in Reqs :
        (req[r].pc # "idle" /\ \A i \in DOMAIN req[r].code :
                                   req[r].code[i] \in Whitespace)
            => /\ req[r].calls = <<>>
               /\ Done(r)
               /\ Status(r) \in 400..499

\* C2: once a model call of a request has raised, the request has ended in
\* a 500 failure that carries no result field, and no further call was
\* issued; so an analysis that succeeded is never returned alone.
C2_FailureIsTerminal ==
    \A r \in Reqs :
        Raised(r) =>
            /\ Done(r)
            /\ Status(r) = 500
            /\ DOMAIN req[r].response.body = {"detail"}
            /\ Len(req[r].calls) = Len(req[r].replies)

C2_Witness ==
    \E r \in Reqs :
        /\ Done(r) /\ Len(req[r].replies) = 2
        /\ req[r].replies[1] = Outcome("text", "", ExampleAnalysis)
        /\ req[r].replies[2].kind = "raise"
        /\ req[r].analysis_text = ExampleAnalysis

\* C3: every request in which a model call raised answers 500 with a
\* payload that holds only a detail, and any two such requests, whatever
\* the cause and whatever analysis was already obtained, answer the same.
C3_GenericErrorPayload ==
    \A r1, r2 \in Reqs :
        (Raised(r1) /\ Raised(r2)) =>
            /\ Status(r1) = 500
            /\ DOMAIN req[r1].response.body = {"detail"}
            /\ req[r1].response = req[r2].response

C3_Witness ==
    \E r1, r2 \in Reqs :
        /\ req[r1].replies = <<Outcome("raise", "timeout", <<>>)>>
        /\ Len(req[r2].replies) = 2
        /\ req[r2].analysis_text = ExampleAnalysis
        /\ req[r2].replies[2] = Outcome("raise", "auth", <<>>)
        /\ Done(r1) /\ Done(r2)

\* C4: a request in which the model returned an empty completion (null or
\* empty content) for either call ends in a 500 processing error.
C4_EmptyCompletionIsFailure ==
    \A r \in Reqs :
        (Done(r) /\ \E i \in DOMAIN req[r].replies :
                        IsEmptyCompletion(req[r].replies[i]))
            => Status(r) = 500

\* C5: the calls of a request are a prefix of <<analysis, rewrite>>; the
\* rewrite call is issued only after the analysis call returned without
\* raising; no call is issued after a call raised; a 200 response implies
\* exactly two calls.
C5_CallOrder ==
    \A r \in Reqs :
        /\ Len(req[r].calls) <= 2
        /\ \A i \in DOMAIN req[r].calls :
               req[r].calls[i].template = <<"analysis", "rewrite">>[i]
        /\ Len(req[r].calls) = 2 =>
               /\ Len(req[r].replies) >= 1
               /\ req[r].replies[1] \notin RaiseOutcomes
        /\ Raised(r) => Len(req[r].calls) = Len(req[r].replies)
        /\ Status(r) = 200 => Len(req[r].calls) = 2 /\ Len(req[r].replies) = 2

C5_Witness ==
    \E r1, r2 \in Reqs :
        /\ Status(r1) = 200 /\ Len(req[r1].calls) = 2
        /\ Done(r2) /\ Raised(r2) /\ Len(req[r2].calls) = 1

NonBlankCount(lines) ==
    Cardinality({i \in DOMAIN lines : Occurs(X, lines[i])})

\* C6: for a text with the four headers in order and non-empty bodies, the
\* count of each header is the number of non-blank lines of its body, and
\* adding a blank or whitespace-only line at the start or end of a body
\* leaves the four counts as they were.
C6_CountsAreNonBlankLines ==
    wf_op # "idle" =>
        /\ wf_metrics.exc = NoException
        /\ \A s \in Severities :
               CountOf(wf_metrics, s) = NonBlankCount(body[s])
        /\ wf_op = "pad" => wf_metrics = wf_prev

C6_Witness ==
    /\ wf_op = "pad"
    /\ \E s \in Severities :
           /\ Len(body[s]) = 3
           /\ body[s][1] \in BlankLines /\ body[s][3] \in BlankLines
           /\ CountOf(wf_metrics, s) = 1

\* C7: parse_review_response raises for no text, and every header that
\* does not occur in the text has a count of zero (so a text without any
\* header has four zero counts).
C7_MissingHeaderCountsZero ==
    pstate = "parsed" =>
        /\ parsed.exc = NoException
        /\ \A s \in Severities :
               ~Occurs(sections[s].header, review_text)
                   => CountOf(parsed, s) = 0

C7_Witness ==
    /\ pstate = "parsed"
    /\ Occurs(X, review_text) /\ Occurs(NL, review_text)
    /\ \A s \in Severities : ~Occurs(sections[s].header, review_text)
    /\ \A s \in Severities : CountOf(parsed, s) = 0

\* C8: a request with empty code ends in a response of status 400.
C8_EmptyCodeIs400 ==
    \A r \in Reqs : (Done(r) /\ req[r].code = <<>>) => Status(r) = 400

\* C9: the client configuration is never changed, every call of a request
\* carries that request's code, a 200 response holds the request's own
\* replies (the analysis content, the stripped rewrite content), and two
\* requests with equal code, focus areas and replies have equal responses.
C9_RequestsAreIndependent ==
    /\ client = InitClient
    /\ \A r \in Reqs :
           /\ \A i \in DOMAIN req[r].calls : req[r].calls[i].code = req[r].code
           /\ Status(r) = 200 =>
                  /\ req[r].response.body.analysis = req[r].replies[1].text
                  /\ \E i, j \in 1..(Len(req[r].replies[2].text) + 1) :
                         req[r].response.body.rewritten_code
                             = SubSeq(req[r].replies[2].text, i, j - 1)
    /\ \A r1, r2 \in Reqs :
           (/\ Done(r1) /\ Done(r2)
            /\ req[r1].code = req[r2].code
            /\ req[r1].focus_areas = req[r2].focus_areas
            /\ req[r1].replies = req[r2].replies)
               => req[r1].response = req[r2].response

C9_Witness ==
    \E r1, r2 \in Reqs :
        /\ Status(r1) = 200 /\ Status(r2) = 200
        /\ req[r1].response.body.analysis = ExampleAnalysis
        /\ req[r2].response.body.analysis = <<>>
        /\ req[r1].response.body.metrics.critical_count = 2
        /\ req[r2].response.body.metrics.critical_count = 0

FirstOf(s) == Find(review_text, sections[s].header, 1)
BodyEnd(s) == FirstOf(s) + Len(groups[s].group1)

\* C10 as stated: the body of every header that is present is the text
\* between its first occurrence and the next header in the fixed order,
\* and only the body of Low Priority runs to the end of the text.
C10_BodyEndsAtNextHeader ==
    pstate = "parsed" =>
        \A s \in Severities :
            Occurs(sections[s].header, review_text) =>
                /\ groups[s].matched
                /\ groups[s].group1
                       = SubSeq(review_text, FirstOf(s) + 1, BodyEnd(s))
                /\ ~Occurs(sections[s].terminator, groups[s].group1)
                /\ IF s = "low"
                   THEN BodyEnd(s) = Len(review_text)
                   ELSE /\ BodyEnd(s) < Len(review_text)
                        /\ review_text[BodyEnd(s) + 1] = sections[s].terminator

\* C10 amended: the body of every header that is present starts after its
\* first occurrence and holds no occurrence of the next header; it ends at
\* the first occurrence of the next header after it, or, when the next
\* header does not occur after it (and always for Low Priority), at the
\* end of the text, a final newline excluded for the first three sections.
C10_BodyEndsAtNextHeaderOrEnd ==
    pstate = "parsed" =>
        \A s \in Severities :
            Occurs(sections[s].header, review_text) =>
                /\ groups[s].matched
                /\ groups[s].group1
                       = SubSeq(review_text, FirstOf(s) + 1, BodyEnd(s))
                /\ ~Occurs(sections[s].terminator, groups[s].group1)
                /\ IF s = "low"
                   THEN BodyEnd(s) = Len(review_text)
                   ELSE \/ /\ BodyEnd(s) < Len(review_text)
                           /\ review_text[BodyEnd(s) + 1] = sections[s].terminator
                        \/ /\ BodyEnd(s) = Len(review_text)
                           /\ review_text[Len(review_text)] # NL
                        \/ /\ BodyEnd(s) = Len(review_text) - 1
                           /\ review_text[Len(review_text)] = NL

C10_Witness ==
    /\ pstate = "parsed"
    /\ groups["critical"].matched
    /\ ~Occurs(HighHdr, review_text)
    /\ Occurs(MediumHdr, groups["critical"].group1)
    /\ BodyEnd("critical") = Len(review_text)

====
